---- MODULE Spec2Model ----
(***************************************************************************)
(* The recipe API (app/recipe/views.py, app/recipe/serializers.py) as a    *)
(* state machine over the relational store: the Recipe, Tag and Ingredient *)
(* tables, the two many-to-many join tables, the id sequences, and the     *)
(* last HTTP response.  One action per request handler; a handler runs as  *)
(* one step under Spec.  RaceSpec runs recipe creation statement by        *)
(* statement so that two requests interleave.                              *)
(***************************************************************************)
EXTENDS Integers, Sequences, FiniteSets, TLC

(* ------------------------------ bounds --------------------------------- *)
MaxRecipeId == 2
MaxTagId == 3
MaxIngredientId == 2
MaxTagsPayload == 2
MaxIngredientsPayload == 2
MaxFilterLen == 2
MaxIngredientsFilterLen == 1
\* Keys in one recipe payload.
MaxPayloadKeys == 2
MaxPayloadId == 1
\* Requests served in one behaviour.
MaxRequests == 3

(* ------------------------------ inputs --------------------------------- *)
Users == {1, 2}
\* request.user of a request without credentials
Anonymous == 0

\* Names in ascending order; order_by('-name') needs their order.
NameOrder == <<"a", "b">>
Names == {NameOrder[i] : i \in DOMAIN NameOrder}
NameRank(n) == CHOOSE i \in DOMAIN NameOrder : NameOrder[i] = n

Titles == {"t1", "t2"}
\* Account emails; the account of user u has the u-th.
EmailOrder == <<"e1", "e2", "e3", "e4">>
Emails == {EmailOrder[i] : i \in DOMAIN EmailOrder}
Passwords == {"pass", "password123"}
UserNames == {"n1", "n2"}
NoImage == "none"
Images == {"img1"}

\* The decimal strings int() accepts, by value, and one it rejects.
Digits == <<"1", "2", "3", "4">>
BadToken == "abc"

SeqsUpTo(S, n) == UNION {[1..k -> S] : k \in 0..n}
Range(seq) == {seq[i] : i \in DOMAIN seq}
\* The ids a recipe is related to in a join table.
Related(join, recipe) == {p[2] : p \in {q \in join : q[1] = recipe}}

VARIABLES
    Recipe,              \* rows [id, user, title, image]
    Tag,                 \* rows [id, user, name]
    Ingredient,          \* rows [id, user, name]
    recipe_tags,         \* join rows <<recipe id, tag id>>
    recipe_ingredients,  \* join rows <<recipe id, ingredient id>>
    recipe_id_seq,       \* next id of each table
    tag_id_seq,
    ingredient_id_seq,
    request,             \* the request being answered
    response,            \* its response, until the client has taken it
    inflight,            \* RaceSpec: the requests in progress
    served,              \* the number of requests served so far
    User                 \* rows [id, email, name] of the accounts

vars == <<Recipe, Tag, Ingredient, recipe_tags, recipe_ingredients,
          recipe_id_seq, tag_id_seq, ingredient_id_seq, request, response, inflight, served,
          User>>

tables == <<Recipe, Tag, Ingredient, recipe_tags, recipe_ingredients,
            recipe_id_seq, tag_id_seq, ingredient_id_seq>>

\* The store as one value, threaded through a handler's statements.
\* raised: an exception left the handler; full: an id bound of the model was hit.
DB ==
    [Recipe |-> Recipe, Tag |-> Tag, Ingredient |-> Ingredient,
     recipe_tags |-> recipe_tags, recipe_ingredients |-> recipe_ingredients,
     recipe_id_seq |-> recipe_id_seq, tag_id_seq |-> tag_id_seq,
     ingredient_id_seq |-> ingredient_id_seq,
     raised |-> FALSE, full |-> FALSE]

Store(d) ==
    /\ Recipe' = d.Recipe
    /\ Tag' = d.Tag
    /\ Ingredient' = d.Ingredient
    /\ recipe_tags' = d.recipe_tags
    /\ recipe_ingredients' = d.recipe_ingredients
    /\ recipe_id_seq' = d.recipe_id_seq
    /\ tag_id_seq' = d.tag_id_seq
    /\ ingredient_id_seq' = d.ingredient_id_seq

(* ------------------------- the storage layer --------------------------- *)
\* Model.objects.create: INSERT with the next id of the table's sequence.
Recipe_objects_create(d, user, title) ==
    IF d.recipe_id_seq > MaxRecipeId THEN [d EXCEPT !.full = TRUE]
    ELSE [d EXCEPT !.Recipe = @ \cup {[id |-> d.recipe_id_seq, user |-> user,
                                       title |-> title, image |-> NoImage]},
                   !.recipe_id_seq = @ + 1]

Tag_objects_create(d, user, name) ==
    IF d.tag_id_seq > MaxTagId THEN [d EXCEPT !.full = TRUE]
    ELSE [d EXCEPT !.Tag = @ \cup {[id |-> d.tag_id_seq, user |-> user, name |-> name]},
                   !.tag_id_seq = @ + 1]

Ingredient_objects_create(d, user, name) ==
    IF d.ingredient_id_seq > MaxIngredientId THEN [d EXCEPT !.full = TRUE]
    ELSE [d EXCEPT !.Ingredient = @ \cup {[id |-> d.ingredient_id_seq, user |-> user,
                                           name |-> name]},
                   !.ingredient_id_seq = @ + 1]

\* create(user=..., **kwargs) of get_or_create: the row takes the id among the keyword
\* arguments when there is one (IntegrityError when a row has it), else the next
\* id of the sequence.
Tag_objects_create_kwargs(d, user, tag) ==
    IF tag.id = 0 THEN [d |-> Tag_objects_create(d, user, tag.name), obj |-> d.tag_id_seq]
    ELSE IF \E t \in d.Tag : t.id = tag.id THEN [d |-> [d EXCEPT !.raised = TRUE], obj |-> 0]
    ELSE [d |-> [d EXCEPT !.Tag = @ \cup {[id |-> tag.id, user |-> user, name |-> tag.name]}],
          obj |-> tag.id]

Ingredient_objects_create_kwargs(d, user, ingredient) ==
    IF ingredient.id = 0
    THEN [d |-> Ingredient_objects_create(d, user, ingredient.name),
          obj |-> d.ingredient_id_seq]
    ELSE IF \E t \in d.Ingredient : t.id = ingredient.id
    THEN [d |-> [d EXCEPT !.raised = TRUE], obj |-> 0]
    ELSE [d |-> [d EXCEPT !.Ingredient = @ \cup {[id |-> ingredient.id, user |-> user,
                                                  name |-> ingredient.name]}],
          obj |-> ingredient.id]

\* Mutant: get_or_create(**tag) without user=auth_user, a lookup by name alone.
Tag_objects_get_or_create_any_user(d, user, tag) ==
    LET found == {t \in d.Tag : t.name = tag.name /\ (tag.id # 0 => t.id = tag.id)} IN
    IF found = {} THEN Tag_objects_create_kwargs(d, user, tag)
    ELSE IF Cardinality(found) = 1 THEN [d |-> d, obj |-> (CHOOSE t \in found : TRUE).id]
    ELSE [d |-> [d EXCEPT !.raised = TRUE], obj |-> 0]

\* Tag.objects.get_or_create(user=auth_user, **tag): get() by the keyword arguments
\* (tag.id = 0: no id among them); on DoesNotExist create(); more than one match
\* raises MultipleObjectsReturned.
Tag_objects_get_or_create(d, user, tag) ==
    LET found == {t \in d.Tag :
                    t.user = user /\ t.name = tag.name /\ (tag.id # 0 => t.id = tag.id)} IN
    IF found = {} THEN Tag_objects_create_kwargs(d, user, tag)
    ELSE IF Cardinality(found) = 1 THEN [d |-> d, obj |-> (CHOOSE t \in found : TRUE).id]
    ELSE [d |-> [d EXCEPT !.raised = TRUE], obj |-> 0]

\* Mutant: Ingredient.objects.create in place of get_or_create, a row per occurrence.
Ingredient_objects_always_create(d, user, ingredient) ==
    Ingredient_objects_create_kwargs(d, user, ingredient)

Ingredient_objects_get_or_create(d, user, ingredient) ==
    LET found == {t \in d.Ingredient :
                    /\ t.user = user /\ t.name = ingredient.name
                    /\ ingredient.id # 0 => t.id = ingredient.id} IN
    IF found = {} THEN Ingredient_objects_create_kwargs(d, user, ingredient)
    ELSE IF Cardinality(found) = 1 THEN [d |-> d, obj |-> (CHOOSE t \in found : TRUE).id]
    ELSE [d |-> [d EXCEPT !.raised = TRUE], obj |-> 0]

\* Mutant: every statement committed on its own, no transaction around the request.
transaction_autocommit(old, new) == new

\* The request's transaction: an exception rolls every write of the request back.
transaction_atomic(old, new) == IF new.raised THEN old ELSE new

(* ---------------------------- serializers ------------------------------ *)
IngredientSerializer_data(i) == [id |-> i.id, name |-> i.name]

TagSerializer_data(t) == [id |-> t.id, name |-> t.name]

RecipeSerializer_data(d, r) ==
    [id |-> r.id, title |-> r.title,
     tags |-> {TagSerializer_data(t) : t \in {x \in d.Tag : <<r.id, x.id>> \in d.recipe_tags}},
     ingredients |-> {IngredientSerializer_data(i) :
                        i \in {x \in d.Ingredient : <<r.id, x.id>> \in d.recipe_ingredients}}]

RecipeImageSerializer_data(r) == [id |-> r.id, image |-> r.image]

\* Mutant: 'user' listed in Meta.fields, the owner writable through the payload.
RecipeSerializer_writable_user == {"title", "tags", "ingredients", "user"}

\* Mutant: the image field taking any uploaded file, decodable as an image or not.
RecipeImageSerializer_is_valid_any_file(image) == image # "absent"

\* RecipeImageSerializer.is_valid: image is required and must decode as an image.
RecipeImageSerializer_is_valid(image) == image \in Images

\* Meta.fields less read_only_fields: the keys a payload can set.
RecipeSerializer_writable == {"title", "tags", "ingredients"}

\* Mutant: read_only_fields = [] in TagSerializer and IngredientSerializer.
TagSerializer_writable_id == {"name", "id"}

TagSerializer_writable == {"name"}

\* The nested serializer's to_internal_value: the item's name, and its id (0: none)
\* only when id is a writable field.
TagSerializer_validated(item) ==
    [name |-> item.name, id |-> IF "id" \in TagSerializer_writable THEN item.id ELSE 0]

\* to_internal_value: the payload's keys that are writable fields, the rest is dropped;
\* the items of tags and ingredients as the nested serializers validate them.
RecipeSerializer_validated(payload) ==
    [payload EXCEPT
       !.keys = @ \cap RecipeSerializer_writable,
       !.tags = [i \in DOMAIN @ |->
                   TagSerializer_validated([name |-> @[i], id |-> payload.nested_id])],
       !.ingredients = [i \in DOMAIN @ |->
                   TagSerializer_validated([name |-> @[i], id |-> payload.nested_id])]]

\* is_valid: a required field may be missing only from a partial update.
RecipeSerializer_is_valid(payload, partial) == partial \/ "title" \in payload.keys

TagSerializer_is_valid(payload, partial) == partial \/ "name" \in payload.keys

RECURSIVE _get_or_create_tags(_, _, _, _)
_get_or_create_tags(d, tags, recipe, auth_user) ==
    IF tags = <<>> \/ d.raised \/ d.full THEN d
    ELSE LET r == Tag_objects_get_or_create(d, auth_user, Head(tags)) IN
         IF r.d.raised \/ r.d.full THEN r.d
         ELSE _get_or_create_tags(
                  [r.d EXCEPT !.recipe_tags = @ \cup {<<recipe, r.obj>>}],
                  Tail(tags), recipe, auth_user)

RECURSIVE _get_or_create_ingredients(_, _, _, _)
_get_or_create_ingredients(d, ingredients, recipe, auth_user) ==
    IF ingredients = <<>> \/ d.raised \/ d.full THEN d
    ELSE LET r == Ingredient_objects_get_or_create(d, auth_user, Head(ingredients)) IN
         IF r.d.raised \/ r.d.full THEN r.d
         ELSE _get_or_create_ingredients(
                  [r.d EXCEPT !.recipe_ingredients = @ \cup {<<recipe, r.obj>>}],
                  Tail(ingredients), recipe, auth_user)

\* RecipeSerializer.create; validated_data carries the user perform_create passed.
create(d, validated_data, auth_user) ==
    LET tags == IF "tags" \in validated_data.keys THEN validated_data.tags ELSE <<>>
        ingredients == IF "ingredients" \in validated_data.keys
                       THEN validated_data.ingredients ELSE <<>>
        recipe == d.recipe_id_seq
        d1 == Recipe_objects_create(d, validated_data.user, validated_data.title)
        d2 == _get_or_create_tags(d1, tags, recipe, auth_user)
    IN  [d |-> _get_or_create_ingredients(d2, ingredients, recipe, auth_user),
         instance |-> recipe]

\* setattr(instance, attr, value) for every remaining key, then save().
setattrs(row, validated_data, attrs) ==
    [f \in DOMAIN row |-> IF f \in attrs THEN validated_data[f] ELSE row[f]]

\* Mutant: instance.tags.all().delete() in place of instance.tags.clear(), and the
\* same for ingredients: the detached rows are deleted.
update_deleting_detached(d, instance, validated_data, auth_user) ==
    LET d1 == IF "tags" \in validated_data.keys
              THEN _get_or_create_tags(
                       [d EXCEPT !.recipe_tags = {p \in @ : p[1] # instance.id},
                                 !.Tag = {t \in @ : <<instance.id, t.id>> \notin d.recipe_tags}],
                       validated_data.tags, instance.id, auth_user)
              ELSE d
        d2 == IF "ingredients" \in validated_data.keys
              THEN _get_or_create_ingredients(
                       [d1 EXCEPT !.recipe_ingredients = {p \in @ : p[1] # instance.id},
                                  !.Ingredient = {i \in @ : <<instance.id, i.id>>
                                                              \notin d.recipe_ingredients}],
                       validated_data.ingredients, instance.id, auth_user)
              ELSE d1
        saved == setattrs(instance, validated_data,
                          validated_data.keys \ {"tags", "ingredients"})
    IN  [d2 EXCEPT !.Recipe = (@ \ {instance}) \cup {saved}]

\* Mutant: update without instance.tags.clear() and instance.ingredients.clear().
update_without_clear(d, instance, validated_data, auth_user) ==
    LET d1 == IF "tags" \in validated_data.keys
              THEN _get_or_create_tags(d, validated_data.tags, instance.id, auth_user)
              ELSE d
        d2 == IF "ingredients" \in validated_data.keys
              THEN _get_or_create_ingredients(d1, validated_data.ingredients, instance.id,
                                              auth_user)
              ELSE d1
        saved == setattrs(instance, validated_data,
                          validated_data.keys \ {"tags", "ingredients"})
    IN  [d2 EXCEPT !.Recipe = (@ \ {instance}) \cup {saved}]

\* Mutant: validated_data.pop('ingredients', []), an absent key read as an empty list.
update_absent_as_empty(d, instance, validated_data, auth_user) ==
    LET d1 == IF "tags" \in validated_data.keys
              THEN _get_or_create_tags(
                       [d EXCEPT !.recipe_tags = {p \in @ : p[1] # instance.id}],
                       validated_data.tags, instance.id, auth_user)
              ELSE d
        d2 == _get_or_create_ingredients(
                  [d1 EXCEPT !.recipe_ingredients = {p \in @ : p[1] # instance.id}],
                  validated_data.ingredients, instance.id, auth_user)
        saved == setattrs(instance, validated_data,
                          validated_data.keys \ {"tags", "ingredients"})
    IN  [d2 EXCEPT !.Recipe = (@ \ {instance}) \cup {saved}]

\* RecipeSerializer.update
update(d, instance, validated_data, auth_user) ==
    LET d1 == IF "tags" \in validated_data.keys
              THEN _get_or_create_tags(
                       [d EXCEPT !.recipe_tags = {p \in @ : p[1] # instance.id}],
                       validated_data.tags, instance.id, auth_user)
              ELSE d
        d2 == IF "ingredients" \in validated_data.keys
              THEN _get_or_create_ingredients(
                       [d1 EXCEPT !.recipe_ingredients = {p \in @ : p[1] # instance.id}],
                       validated_data.ingredients, instance.id, auth_user)
              ELSE d1
        saved == setattrs(instance, validated_data,
                          validated_data.keys \ {"tags", "ingredients"})
    IN  [d2 EXCEPT !.Recipe = (@ \ {instance}) \cup {saved}]

(* ------------------------------- views --------------------------------- *)
Response(user, status, kind, data) ==
    [user |-> user, status |-> status, kind |-> kind, data |-> data]

NoData == <<>>

\* No response is on its way to a client.
NoResponse == Response(Anonymous, 0, "none", NoData)

\* int(str): the value of a decimal string; anything else raises ValueError.
IsInt(str) == str = "0" \/ \E i \in DOMAIN Digits : Digits[i] = str
int(str) == IF str = "0" THEN 0 ELSE CHOOSE i \in DOMAIN Digits : Digits[i] = str

\* [int(str_id) for str_id in qs.split(',')], qs given as its split parts
_params_to_inits(qs) ==
    [raised |-> \E k \in DOMAIN qs : ~IsInt(qs[k]),
     ids |-> {int(qs[k]) : k \in {i \in DOMAIN qs : IsInt(qs[i])}}]

\* order_by('-key'): every ordering of S with non-increasing key
Orderings(S, Key(_)) ==
    {s \in [1..Cardinality(S) -> S] :
        /\ \A i, j \in DOMAIN s : i # j => s[i] # s[j]
        /\ \A i, j \in DOMAIN s : i < j => Key(s[i]) >= Key(s[j])}

RecipeKey(j) == j.row.id
AttrKey(j) == NameRank(j.row.name)

\* Mutant: the queryset without .distinct(), one result row per joined relation row.
distinct_absent(q) == q

\* distinct(): one result row per distinct model row (the join columns are not selected)
distinct(q) == {[row |-> j.row, joined |-> 0] : j \in q}

\* Mutant: get_queryset without .filter(user=self.request.user).
RecipeViewSet_get_queryset_unscoped(d, user, tags, ingredients) ==
    LET tags_ids == _params_to_inits(tags)
        ingredients_ids == _params_to_inits(ingredients)
        matching == {r \in d.Recipe :
                       /\ tags # <<>> => Related(d.recipe_tags, r.id) \cap tags_ids.ids # {}
                       /\ ingredients # <<>> =>
                            Related(d.recipe_ingredients, r.id) \cap ingredients_ids.ids # {}}
    IN  [raised |-> (tags # <<>> /\ tags_ids.raised)
                    \/ (ingredients # <<>> /\ ingredients_ids.raised),
         rows |-> {[row |-> r, joined |-> 0] : r \in matching}]

\* RecipeViewSet.get_queryset; tags and ingredients are the query parameters
\* (<<>>: absent or empty, which `if tags:` treats alike).  A filter over a
\* many-to-many relation joins: one result row per matching relation row.
RecipeViewSet_get_queryset(d, user, tags, ingredients) ==
    LET queryset == {[row |-> r, joined |-> 0] : r \in d.Recipe}
        tags_ids == _params_to_inits(tags)
        q1 == IF tags # <<>>
              THEN {[row |-> x[1].row, joined |-> x[2]] :
                      x \in {y \in queryset \X d.recipe_tags :
                               y[2][1] = y[1].row.id /\ y[2][2] \in tags_ids.ids}}
              ELSE queryset
        ingredients_ids == _params_to_inits(ingredients)
        q2 == IF ingredients # <<>>
              THEN {[row |-> x[1].row, joined |-> <<x[1].joined, x[2]>>] :
                      x \in {y \in q1 \X d.recipe_ingredients :
                               y[2][1] = y[1].row.id /\ y[2][2] \in ingredients_ids.ids}}
              ELSE q1
    IN  [raised |-> (tags # <<>> /\ tags_ids.raised)
                    \/ (ingredients # <<>> /\ ingredients_ids.raised),
         rows |-> distinct({j \in q2 : j.row.user = user})]

\* Mutant: get_queryset without .filter(user=self.request.user).
BaseRecipeAttrViewSet_get_queryset_unscoped(rows, join, user, assigned_only) ==
    LET param == IF assigned_only = "absent" THEN "0" ELSE assigned_only IN
    [raised |-> ~IsInt(param),
     rows |-> {[row |-> r, joined |-> 0] :
                 r \in {x \in rows : (IsInt(param) /\ int(param) # 0)
                                       => \E p \in join : p[2] = x.id}}]

\* Mutant: get_queryset without the `if assigned_only:` filter.
BaseRecipeAttrViewSet_get_queryset_all(rows, join, user, assigned_only) ==
    LET param == IF assigned_only = "absent" THEN "0" ELSE assigned_only IN
    [raised |-> ~IsInt(param),
     rows |-> {[row |-> r, joined |-> 0] : r \in {x \in rows : x.user = user}}]

\* BaseRecipeAttrViewSet.get_queryset over the viewset's table (rows) and its
\* relation to Recipe (join); assigned_only is the query parameter or "absent".
BaseRecipeAttrViewSet_get_queryset(rows, join, user, assigned_only) ==
    LET param == IF assigned_only = "absent" THEN "0" ELSE assigned_only
        queryset == {[row |-> r, joined |-> 0] : r \in rows}
        q1 == IF IsInt(param) /\ int(param) # 0
              THEN {[row |-> x[1].row, joined |-> x[2]] :
                      x \in {y \in queryset \X join : y[2][2] = y[1].row.id}}
              ELSE queryset
    IN  [raised |-> ~IsInt(param),
         rows |-> distinct({j \in q1 : j.row.user = user})]

\* GenericAPIView.get_object: the row of the queryset with this pk, else Http404
get_object(queryset, pk) == {j.row : j \in {x \in queryset.rows : x.row.id = pk}}

\* Mutant: serializer.save() without user=self.request.user, the owner left to the payload.
perform_create_payload_user(d, validated_data, request_user) ==
    create(d, [validated_data EXCEPT !.keys = @ \cup {"user"}], request_user)

\* RecipeViewSet.perform_create: serializer.save(user=self.request.user)
perform_create(d, validated_data, request_user) ==
    create(d, [validated_data EXCEPT !.user = request_user, !.keys = @ \cup {"user"}],
           request_user)

RecipeRow(d, id) == CHOOSE r \in d.Recipe : r.id = id

(* ------------------------------ requests ------------------------------- *)
EmptyFilter == <<>>
TagTokens == {Digits[i] : i \in 1..MaxTagId} \cup {BadToken}
IngredientTokens == {Digits[i] : i \in 1..MaxIngredientId} \cup {BadToken}
AssignedOnlyParams == {"absent", "0", "1", BadToken}

\* The ids a client writes into a payload.
PayloadIds == 1..MaxPayloadId

RecipeFields == {"title", "tags", "ingredients", "user", "id"}
\* The ingredients lists of a payload: a list of two names repeats one name.
IngredientLists ==
    {l \in SeqsUpTo(Names, MaxIngredientsPayload) : Cardinality(Range(l)) <= 1}
\* A recipe payload: the keys it holds and their values (a fixed value under an absent
\* key).  An id comes alone or with a title, and a second title comes alone.
RecipePayloads ==
    {p \in [keys : SUBSET RecipeFields, title : Titles,
            tags : SeqsUpTo(Names, MaxTagsPayload),
            ingredients : IngredientLists, user : Users,
            id : 0..MaxPayloadId, nested_id : 0..MaxPayloadId] :
        /\ "title" \notin p.keys => p.title = "t1"
        /\ "tags" \notin p.keys => p.tags = <<>>
        /\ "ingredients" \notin p.keys => p.ingredients = <<>>
        /\ "user" \notin p.keys => p.user = 1
        /\ "id" \in p.keys <=> p.id # 0
        /\ "id" \in p.keys => p.keys \subseteq {"title", "id"}
        /\ p.title # "t1" => p.keys = {"title"}
        /\ p.nested_id # 0 =>
             /\ p.keys \subseteq {"title", "tags", "ingredients"}
             /\ Cardinality(p.keys \cap {"tags", "ingredients"}) = 1
             /\ Len(p.tags) + Len(p.ingredients) = 1
        /\ Cardinality(p.keys) <= MaxPayloadKeys}

AttrPayloads ==
    {p \in [keys : SUBSET {"name", "id"}, name : Names, id : 0..MaxPayloadId] :
        /\ "name" \notin p.keys => p.name = NameOrder[1]
        /\ "id" \in p.keys <=> p.id # 0}

\* The uploaded form: no image field, a file that is no image, or an image.
ImageUploads == {"absent", "notanimage"} \cup Images

\* GET /api/recipe/recipes/
RecipeViewSet_list(u, tags, ingredients) ==
    /\ UNCHANGED <<tables, inflight>>
    /\ LET qs == RecipeViewSet_get_queryset(DB, u, tags, ingredients) IN
            IF qs.raised THEN response' = Response(u, 500, "none", NoData)
            ELSE \E s \in Orderings(qs.rows, RecipeKey) :
                   response' = Response(u, 200, "recipes",
                                 [i \in DOMAIN s |-> RecipeSerializer_data(DB, s[i].row)])

\* GET /api/recipe/recipes/<pk>/
RecipeViewSet_retrieve(u, pk) ==
    /\ UNCHANGED <<tables, inflight>>
    /\ LET found == get_object(RecipeViewSet_get_queryset(DB, u, EmptyFilter, EmptyFilter), pk) IN
            IF found = {} THEN response' = Response(u, 404, "none", NoData)
            ELSE response' = Response(u, 200, "recipes",
                               <<RecipeSerializer_data(DB, CHOOSE r \in found : TRUE)>>)

\* POST /api/recipe/recipes/
RecipeViewSet_create(u, payload) ==
    /\ UNCHANGED inflight
    /\ IF ~RecipeSerializer_is_valid(payload, FALSE)
       THEN response' = Response(u, 400, "none", NoData) /\ UNCHANGED tables
       ELSE LET done == perform_create(DB, RecipeSerializer_validated(payload), u)
                d == transaction_atomic(DB, done.d)
            IN  /\ ~done.d.full
                /\ Store(d)
                /\ response' =
                     IF done.d.raised THEN Response(u, 500, "none", NoData)
                     ELSE Response(u, 201, "recipes",
                            <<RecipeSerializer_data(d, RecipeRow(d, done.instance))>>)

\* PUT (partial = FALSE) and PATCH (partial = TRUE) /api/recipe/recipes/<pk>/
RecipeViewSet_update(u, pk, partial, payload) ==
    /\ UNCHANGED inflight
    /\ LET found == get_object(RecipeViewSet_get_queryset(DB, u, EmptyFilter, EmptyFilter), pk) IN
            IF found = {}
            THEN response' = Response(u, 404, "none", NoData) /\ UNCHANGED tables
            ELSE IF ~RecipeSerializer_is_valid(payload, partial)
            THEN response' = Response(u, 400, "none", NoData) /\ UNCHANGED tables
            ELSE LET done == update(DB, CHOOSE r \in found : TRUE,
                                    RecipeSerializer_validated(payload), u)
                     d == transaction_atomic(DB, done)
                 IN  /\ ~done.full
                     /\ Store(d)
                     /\ response' =
                          IF done.raised THEN Response(u, 500, "none", NoData)
                          ELSE Response(u, 200, "recipes",
                                 <<RecipeSerializer_data(d, RecipeRow(d, pk))>>)

\* Mutant: the delete of a recipe taking the tags and ingredients related to it along.
RecipeViewSet_destroy_with_attrs(u, pk) ==
    /\ UNCHANGED inflight
    /\ LET found == get_object(RecipeViewSet_get_queryset(DB, u, EmptyFilter, EmptyFilter), pk) IN
            IF found = {}
            THEN response' = Response(u, 404, "none", NoData) /\ UNCHANGED tables
            ELSE /\ Recipe' = Recipe \ found
                 /\ Tag' = {t \in Tag : <<pk, t.id>> \notin recipe_tags}
                 /\ Ingredient' = {i \in Ingredient : <<pk, i.id>> \notin recipe_ingredients}
                 /\ recipe_tags' = {p \in recipe_tags : p[1] # pk}
                 /\ recipe_ingredients' = {p \in recipe_ingredients : p[1] # pk}
                 /\ UNCHANGED <<recipe_id_seq, tag_id_seq, ingredient_id_seq>>
                 /\ response' = Response(u, 204, "none", NoData)

\* DELETE /api/recipe/recipes/<pk>/
RecipeViewSet_destroy(u, pk) ==
    /\ UNCHANGED inflight
    /\ LET found == get_object(RecipeViewSet_get_queryset(DB, u, EmptyFilter, EmptyFilter), pk) IN
            IF found = {}
            THEN response' = Response(u, 404, "none", NoData) /\ UNCHANGED tables
            ELSE /\ Recipe' = Recipe \ found
                 /\ recipe_tags' = {p \in recipe_tags : p[1] # pk}
                 /\ recipe_ingredients' = {p \in recipe_ingredients : p[1] # pk}
                 /\ UNCHANGED <<Tag, Ingredient, recipe_id_seq, tag_id_seq, ingredient_id_seq>>
                 /\ response' = Response(u, 204, "none", NoData)

\* POST /api/recipe/recipes/<pk>/upload_image/
upload_image(u, pk, image) ==
    /\ UNCHANGED <<Tag, Ingredient, recipe_tags, recipe_ingredients,
                   recipe_id_seq, tag_id_seq, ingredient_id_seq, inflight>>
    /\ LET found == get_object(RecipeViewSet_get_queryset(DB, u, EmptyFilter, EmptyFilter), pk) IN
            IF found = {}
            THEN response' = Response(u, 404, "none", NoData) /\ UNCHANGED Recipe
            ELSE IF ~RecipeImageSerializer_is_valid(image)
            THEN response' = Response(u, 400, "none", NoData) /\ UNCHANGED Recipe
            ELSE LET recipe == CHOOSE r \in found : TRUE
                     saved == [recipe EXCEPT !.image = image]
                 IN  /\ Recipe' = (Recipe \ {recipe}) \cup {saved}
                     /\ response' = Response(u, 200, "image",
                                             <<RecipeImageSerializer_data(saved)>>)

\* GET /api/recipe/tags/ (TagViewSet: ListModelMixin over BaseRecipeAttrViewSet)
TagViewSet_list(u, assigned_only) ==
    /\ UNCHANGED <<tables, inflight>>
    /\ LET qs == BaseRecipeAttrViewSet_get_queryset(Tag, recipe_tags, u, assigned_only) IN
            IF qs.raised THEN response' = Response(u, 500, "none", NoData)
            ELSE \E s \in Orderings(qs.rows, AttrKey) :
                   response' = Response(u, 200, "tags",
                                 [i \in DOMAIN s |-> TagSerializer_data(s[i].row)])

\* PUT and PATCH /api/recipe/tags/<pk>/ (UpdateModelMixin, ModelSerializer.update)
TagViewSet_update(u, pk, partial, payload) ==
    /\ UNCHANGED <<Recipe, Ingredient, recipe_tags, recipe_ingredients,
                   recipe_id_seq, tag_id_seq, ingredient_id_seq, inflight>>
    /\ LET found == get_object(
                    BaseRecipeAttrViewSet_get_queryset(Tag, recipe_tags, u, "absent"), pk) IN
            IF found = {}
            THEN response' = Response(u, 404, "none", NoData) /\ UNCHANGED Tag
            ELSE IF ~TagSerializer_is_valid(payload, partial)
            THEN response' = Response(u, 400, "none", NoData) /\ UNCHANGED Tag
            ELSE LET instance == CHOOSE t \in found : TRUE
                     saved == setattrs(instance, payload, payload.keys \cap TagSerializer_writable)
                 IN  /\ Tag' = (Tag \ {instance}) \cup {saved}
                     /\ response' = Response(u, 200, "tags", <<TagSerializer_data(saved)>>)

\* DELETE /api/recipe/tags/<pk>/ (DestroyModelMixin); the relation rows go with the tag
TagViewSet_destroy(u, pk) ==
    /\ UNCHANGED <<Recipe, Ingredient, recipe_ingredients,
                   recipe_id_seq, tag_id_seq, ingredient_id_seq, inflight>>
    /\ LET found == get_object(
                    BaseRecipeAttrViewSet_get_queryset(Tag, recipe_tags, u, "absent"), pk) IN
            IF found = {}
            THEN response' = Response(u, 404, "none", NoData) /\ UNCHANGED <<Tag, recipe_tags>>
            ELSE /\ Tag' = Tag \ found
                 /\ recipe_tags' = {p \in recipe_tags : p[2] # pk}
                 /\ response' = Response(u, 204, "none", NoData)

\* GET /api/recipe/ingredients/
IngredientViewSet_list(u, assigned_only) ==
    /\ UNCHANGED <<tables, inflight>>
    /\ LET qs == BaseRecipeAttrViewSet_get_queryset(Ingredient, recipe_ingredients,
                                                         u, assigned_only) IN
            IF qs.raised THEN response' = Response(u, 500, "none", NoData)
            ELSE \E s \in Orderings(qs.rows, AttrKey) :
                   response' = Response(u, 200, "ingredients",
                                 [i \in DOMAIN s |-> IngredientSerializer_data(s[i].row)])

\* PUT and PATCH /api/recipe/ingredients/<pk>/
IngredientViewSet_update(u, pk, partial, payload) ==
    /\ UNCHANGED <<Recipe, Tag, recipe_tags, recipe_ingredients,
                   recipe_id_seq, tag_id_seq, ingredient_id_seq, inflight>>
    /\ LET found == get_object(
                    BaseRecipeAttrViewSet_get_queryset(Ingredient, recipe_ingredients,
                                                       u, "absent"), pk) IN
            IF found = {}
            THEN response' = Response(u, 404, "none", NoData) /\ UNCHANGED Ingredient
            ELSE IF ~TagSerializer_is_valid(payload, partial)
            THEN response' = Response(u, 400, "none", NoData) /\ UNCHANGED Ingredient
            ELSE LET instance == CHOOSE t \in found : TRUE
                     saved == setattrs(instance, payload, payload.keys \cap TagSerializer_writable)
                 IN  /\ Ingredient' = (Ingredient \ {instance}) \cup {saved}
                     /\ response' = Response(u, 200, "ingredients",
                                             <<IngredientSerializer_data(saved)>>)

\* DELETE /api/recipe/ingredients/<pk>/
IngredientViewSet_destroy(u, pk) ==
    /\ UNCHANGED <<Recipe, Tag, recipe_tags,
                   recipe_id_seq, tag_id_seq, ingredient_id_seq, inflight>>
    /\ LET found == get_object(
                    BaseRecipeAttrViewSet_get_queryset(Ingredient, recipe_ingredients,
                                                       u, "absent"), pk) IN
            IF found = {}
            THEN response' = Response(u, 404, "none", NoData)
                 /\ UNCHANGED <<Ingredient, recipe_ingredients>>
            ELSE /\ Ingredient' = Ingredient \ found
                 /\ recipe_ingredients' = {p \in recipe_ingredients : p[2] # pk}
                 /\ response' = Response(u, 204, "none", NoData)

(* --------------------------- specification ----------------------------- *)
NoRequests == <<>>
NoRequest == [op |-> "none"]

\* No recipe data, the accounts of the users the requests come from, and no request
\* served yet.
Init ==
    /\ Recipe = {}
    /\ Tag = {}
    /\ Ingredient = {}
    /\ recipe_tags = {}
    /\ recipe_ingredients = {}
    /\ recipe_id_seq = 1
    /\ tag_id_seq = 1
    /\ ingredient_id_seq = 1
    /\ request = NoRequest
    /\ response = NoResponse
    /\ inflight = NoRequests
    /\ served = 0
    /\ User = {[id |-> u, email |-> EmailOrder[u], name |-> "n1"] : u \in Users}

RecipePks == 1..MaxRecipeId
TagPks == 1..MaxTagId
IngredientPks == 1..MaxIngredientId

\* The tags and ingredients parameters of a recipe list: both are given only with a
\* single tag id.
RecipeFilters ==
    {f \in SeqsUpTo(TagTokens, MaxFilterLen)
             \X SeqsUpTo(IngredientTokens, MaxIngredientsFilterLen) :
        f[2] # <<>> => Len(f[1]) <= 1}

\* PUT differs from PATCH in is_valid alone, so PUT payloads vary the required field only.
PutPayloads == {p \in RecipePayloads : p.keys \subseteq {"title"} /\ p.nested_id = 0}

\* The endpoints and the viewset that serves each.
Endpoints ==
    {"recipe-list", "recipe-retrieve", "recipe-create", "recipe-update", "recipe-destroy",
     "recipe-upload-image", "tag-list", "tag-update", "tag-destroy",
     "ingredient-list", "ingredient-update", "ingredient-destroy"}
ViewsetOf(endpoint) ==
    IF endpoint \in {"tag-list", "tag-update", "tag-destroy"} THEN "TagViewSet"
    ELSE IF endpoint \in {"ingredient-list", "ingredient-update", "ingredient-destroy"}
    THEN "IngredientViewSet"
    ELSE "RecipeViewSet"

\* permission_classes of the viewset
permission_classes(viewset) == {"IsAuthenticated"}

\* Mutant: permission_classes left at AllowAny.
has_permission_allow_any(viewset, user) == TRUE

\* APIView.check_permissions: TokenAuthentication leaves a request without a valid
\* token anonymous, and IsAuthenticated refuses an anonymous request.
has_permission(viewset, user) ==
    "IsAuthenticated" \in permission_classes(viewset) => user # Anonymous

\* The identities whose requests reach the viewset's handlers.
Permitted(viewset) == {u \in Users \cup {Anonymous} : has_permission(viewset, u)}

\* APIView.initial refuses the request before any handler runs.
permission_denied ==
    /\ response' = Response(Anonymous, 401, "none", NoData)
    /\ UNCHANGED <<tables, inflight>>

\* One request is served at a time: none while a response is on its way.
Accept(req) ==
    /\ response = NoResponse
    /\ served < MaxRequests
    /\ served' = served + 1
    /\ request' = req
    /\ UNCHANGED User

\* The client takes the response; the next request can be served.
Deliver ==
    /\ response # NoResponse
    /\ response' = NoResponse
    /\ request' = NoRequest
    /\ UNCHANGED <<tables, inflight, served, User>>

Next ==
    \/ \E e \in Endpoints :
          /\ ~has_permission(ViewsetOf(e), Anonymous)
          /\ Accept([op |-> "unauthenticated", user |-> Anonymous, endpoint |-> e])
          /\ permission_denied
    \/ \E u \in Permitted("RecipeViewSet"), f \in RecipeFilters :
          /\ Accept([op |-> "recipe-list", user |-> u, tags |-> f[1], ingredients |-> f[2]])
          /\ RecipeViewSet_list(u, f[1], f[2])
    \/ \E u \in Permitted("RecipeViewSet"), pk \in RecipePks :
          /\ Accept([op |-> "recipe-retrieve", user |-> u, pk |-> pk])
          /\ RecipeViewSet_retrieve(u, pk)
    \/ \E u \in Permitted("RecipeViewSet"), p \in RecipePayloads :
          /\ Accept([op |-> "recipe-create", user |-> u, payload |-> p])
          /\ RecipeViewSet_create(u, p)
    \/ \E u \in Permitted("RecipeViewSet"), pk \in RecipePks, p \in RecipePayloads :
          /\ Accept([op |-> "recipe-update", user |-> u, pk |-> pk, partial |-> TRUE,
                     payload |-> p])
          /\ RecipeViewSet_update(u, pk, TRUE, p)
    \/ \E u \in Permitted("RecipeViewSet"), pk \in RecipePks, p \in PutPayloads :
          /\ Accept([op |-> "recipe-update", user |-> u, pk |-> pk, partial |-> FALSE,
                     payload |-> p])
          /\ RecipeViewSet_update(u, pk, FALSE, p)
    \/ \E u \in Permitted("RecipeViewSet"), pk \in RecipePks :
          /\ Accept([op |-> "recipe-destroy", user |-> u, pk |-> pk])
          /\ RecipeViewSet_destroy(u, pk)
    \/ \E u \in Permitted("RecipeViewSet"), pk \in RecipePks, image \in ImageUploads :
          /\ Accept([op |-> "recipe-upload-image", user |-> u, pk |-> pk, image |-> image])
          /\ upload_image(u, pk, image)
    \/ \E u \in Permitted("TagViewSet"), a \in AssignedOnlyParams :
          /\ Accept([op |-> "tag-list", user |-> u, assigned_only |-> a])
          /\ TagViewSet_list(u, a)
    \/ \E u \in Permitted("TagViewSet"), pk \in TagPks, partial \in BOOLEAN, p \in AttrPayloads :
          /\ Accept([op |-> "tag-update", user |-> u, pk |-> pk, partial |-> partial,
                     payload |-> p])
          /\ TagViewSet_update(u, pk, partial, p)
    \/ \E u \in Permitted("TagViewSet"), pk \in TagPks :
          /\ Accept([op |-> "tag-destroy", user |-> u, pk |-> pk])
          /\ TagViewSet_destroy(u, pk)
    \/ \E u \in Permitted("IngredientViewSet"), a \in AssignedOnlyParams :
          /\ Accept([op |-> "ingredient-list", user |-> u, assigned_only |-> a])
          /\ IngredientViewSet_list(u, a)
    \/ \E u \in Permitted("IngredientViewSet"), pk \in IngredientPks, partial \in BOOLEAN, p \in AttrPayloads :
          /\ Accept([op |-> "ingredient-update", user |-> u, pk |-> pk, partial |-> partial,
                     payload |-> p])
          /\ IngredientViewSet_update(u, pk, partial, p)
    \/ \E u \in Permitted("IngredientViewSet"), pk \in IngredientPks :
          /\ Accept([op |-> "ingredient-destroy", user |-> u, pk |-> pk])
          /\ IngredientViewSet_destroy(u, pk)
    \/ Deliver

Spec == Init /\ [][Next]_vars

(* ------------------- concurrent recipe creation ------------------------ *)
(* RecipeSerializer.create statement by statement, for requests served by  *)
(* different workers at once.  Each request runs in its own transaction:   *)
(* its statements see the committed rows and the request's own writes; the *)
(* writes reach the tables at commit.  Ids come from the shared sequences. *)
MaxConcurrent == 2

RacePayloads ==
    {p \in RecipePayloads :
        /\ "title" \in p.keys /\ p.title = "t1" /\ "user" \notin p.keys
        /\ "id" \notin p.keys /\ p.nested_id = 0}

\* The statement a request runs next: the loop over tags, then over ingredients.
NextStatement(tags, ingredients) ==
    IF tags # <<>> THEN "get_tag"
    ELSE IF ingredients # <<>> THEN "get_ingredient" ELSE "commit"

Running(i, pc) == i \in DOMAIN inflight /\ inflight[i].pc = pc

\* POST /api/recipe/recipes/ reaches RecipeSerializer.create
begin_create(u, payload) ==
    /\ Len(inflight) < MaxConcurrent
    /\ inflight' = Append(inflight,
         [user |-> u, title |-> payload.title, tags |-> payload.tags,
          ingredients |-> payload.ingredients, pc |-> "create", recipe |-> 0, obj |-> 0,
          new_tags |-> {}, new_ingredients |-> {}, status |-> 0])
    /\ UNCHANGED <<tables, request, response, served, User>>

\* recipe = Recipe.objects.create(**validated_data)
create_recipe(i) ==
    /\ Running(i, "create")
    /\ recipe_id_seq <= MaxRecipeId
    /\ recipe_id_seq' = recipe_id_seq + 1
    /\ inflight' = [inflight EXCEPT ![i].recipe = recipe_id_seq,
                      ![i].pc = NextStatement(inflight[i].tags, inflight[i].ingredients)]
    /\ UNCHANGED <<Recipe, Tag, Ingredient, recipe_tags, recipe_ingredients,
                   tag_id_seq, ingredient_id_seq, request, response, served, User>>

\* get_or_create, the lookup: Tag.objects.get(user=auth_user, name=...)
get_tag(i) ==
    /\ Running(i, "get_tag")
    /\ LET r == inflight[i]
           found == {t \in Tag \cup r.new_tags : t.user = r.user /\ t.name = Head(r.tags)}
       IN  inflight' = [inflight EXCEPT
             ![i].obj = IF Cardinality(found) = 1 THEN (CHOOSE t \in found : TRUE).id ELSE 0,
             ![i].pc = IF found = {} THEN "insert_tag"
                       ELSE IF Cardinality(found) = 1 THEN "add_tag" ELSE "rollback"]
    /\ UNCHANGED <<tables, request, response, served, User>>

\* get_or_create, the insert after DoesNotExist
insert_tag(i) ==
    /\ Running(i, "insert_tag")
    /\ tag_id_seq <= MaxTagId
    /\ tag_id_seq' = tag_id_seq + 1
    /\ inflight' = [inflight EXCEPT
         ![i].new_tags = @ \cup {[id |-> tag_id_seq, user |-> inflight[i].user,
                                  name |-> Head(inflight[i].tags)]},
         ![i].obj = tag_id_seq,
         ![i].pc = "add_tag"]
    /\ UNCHANGED <<Recipe, Tag, Ingredient, recipe_tags, recipe_ingredients,
                   recipe_id_seq, ingredient_id_seq, request, response, served, User>>

\* recipe.tags.add(tag_obj), and the loop's next round
add_tag(i) ==
    /\ Running(i, "add_tag")
    /\ inflight' = [inflight EXCEPT
         ![i].tags = Tail(@),
         ![i].pc = NextStatement(Tail(inflight[i].tags), inflight[i].ingredients)]
    /\ recipe_tags' = recipe_tags \cup {<<inflight[i].recipe, inflight[i].obj>>}
    /\ UNCHANGED <<Recipe, Tag, Ingredient, recipe_ingredients,
                   recipe_id_seq, tag_id_seq, ingredient_id_seq, request, response, served, User>>

get_ingredient(i) ==
    /\ Running(i, "get_ingredient")
    /\ LET r == inflight[i]
           found == {t \in Ingredient \cup r.new_ingredients :
                       t.user = r.user /\ t.name = Head(r.ingredients)}
       IN  inflight' = [inflight EXCEPT
             ![i].obj = IF Cardinality(found) = 1 THEN (CHOOSE t \in found : TRUE).id ELSE 0,
             ![i].pc = IF found = {} THEN "insert_ingredient"
                       ELSE IF Cardinality(found) = 1 THEN "add_ingredient" ELSE "rollback"]
    /\ UNCHANGED <<tables, request, response, served, User>>

insert_ingredient(i) ==
    /\ Running(i, "insert_ingredient")
    /\ ingredient_id_seq <= MaxIngredientId
    /\ ingredient_id_seq' = ingredient_id_seq + 1
    /\ inflight' = [inflight EXCEPT
         ![i].new_ingredients = @ \cup {[id |-> ingredient_id_seq, user |-> inflight[i].user,
                                         name |-> Head(inflight[i].ingredients)]},
         ![i].obj = ingredient_id_seq,
         ![i].pc = "add_ingredient"]
    /\ UNCHANGED <<Recipe, Tag, Ingredient, recipe_tags, recipe_ingredients,
                   recipe_id_seq, tag_id_seq, request, response, served, User>>

add_ingredient(i) ==
    /\ Running(i, "add_ingredient")
    /\ inflight' = [inflight EXCEPT
         ![i].ingredients = Tail(@),
         ![i].pc = NextStatement(<<>>, Tail(inflight[i].ingredients))]
    /\ recipe_ingredients' = recipe_ingredients \cup {<<inflight[i].recipe, inflight[i].obj>>}
    /\ UNCHANGED <<Recipe, Tag, Ingredient, recipe_tags,
                   recipe_id_seq, tag_id_seq, ingredient_id_seq, request, response, served, User>>

\* The request returns: its transaction commits and 201 goes out.
commit(i) ==
    /\ Running(i, "commit")
    /\ LET r == inflight[i] IN
       /\ Recipe' = Recipe \cup {[id |-> r.recipe, user |-> r.user, title |-> r.title,
                                  image |-> NoImage]}
       /\ Tag' = Tag \cup r.new_tags
       /\ Ingredient' = Ingredient \cup r.new_ingredients
    /\ inflight' = [inflight EXCEPT ![i].pc = "done", ![i].status = 201]
    /\ UNCHANGED <<recipe_tags, recipe_ingredients, recipe_id_seq, tag_id_seq,
                   ingredient_id_seq, request, response, served, User>>

\* MultipleObjectsReturned leaves the handler: the transaction rolls back, 500 goes out.
rollback(i) ==
    /\ Running(i, "rollback")
    /\ recipe_tags' = {p \in recipe_tags : p[1] # inflight[i].recipe}
    /\ recipe_ingredients' = {p \in recipe_ingredients : p[1] # inflight[i].recipe}
    /\ inflight' = [inflight EXCEPT ![i].pc = "done", ![i].status = 500]
    /\ UNCHANGED <<Recipe, Tag, Ingredient, recipe_id_seq, tag_id_seq,
                   ingredient_id_seq, request, response, served, User>>

Slots == 1..MaxConcurrent

RaceNext ==
    \/ \E u \in Users, p \in RacePayloads : begin_create(u, p)
    \/ \E i \in Slots : create_recipe(i)
    \/ \E i \in Slots : get_tag(i)
    \/ \E i \in Slots : insert_tag(i)
    \/ \E i \in Slots : add_tag(i)
    \/ \E i \in Slots : get_ingredient(i)
    \/ \E i \in Slots : insert_ingredient(i)
    \/ \E i \in Slots : add_ingredient(i)
    \/ \E i \in Slots : commit(i)
    \/ \E i \in Slots : rollback(i)

RaceSpec == Init /\ [][RaceNext]_vars

(* ---------------------------- registration ----------------------------- *)
\* The shortest password the user serializer accepts.
MinPasswordLength == 5

UserPayloads == [email : Emails, password : Passwords, name : UserNames]

\* Mutant: the email validated for its form alone, not against the accounts.
UserSerializer_is_valid_any_email(payload) ==
    Len(payload.password) >= MinPasswordLength

\* UserSerializer.is_valid: the email is not an account's and the password is long enough.
UserSerializer_is_valid(payload) ==
    /\ \A a \in User : a.email # payload.email
    /\ Len(payload.password) >= MinPasswordLength

\* POST /api/user/create/ (no authentication); the insert fails on an email that
\* an account has (the email column is unique).
CreateUserView_post(payload) ==
    /\ response = NoResponse
    /\ served < MaxRequests
    /\ served' = served + 1
    /\ request' = [op |-> "user-create", user |-> Anonymous, payload |-> payload]
    /\ UNCHANGED <<tables, inflight>>
    /\ IF ~UserSerializer_is_valid(payload)
       THEN response' = Response(Anonymous, 400, "none", NoData) /\ UNCHANGED User
       ELSE IF \E a \in User : a.email = payload.email
       THEN response' = Response(Anonymous, 500, "none", NoData) /\ UNCHANGED User
       ELSE /\ User' = User \cup {[id |-> Cardinality(User) + 1, email |-> payload.email,
                                   name |-> payload.name]}
            /\ response' = Response(Anonymous, 201, "user",
                                    <<[email |-> payload.email, name |-> payload.name]>>)

UserNext ==
    \/ \E p \in UserPayloads : CreateUserView_post(p)
    \/ Deliver

UserSpec == Init /\ [][UserNext]_vars

(* ------------------------------ properties ----------------------------- *)
OwnerOf(rows, id) == (CHOOSE r \in rows : r.id = id).user
Exists(rows, id) == \E r \in rows : r.id = id
Answered(op, status) == request.op = op /\ response.status = status

\* C1 Read isolation: every recipe, tag and ingredient serialized in a response,
\* nested tags and ingredients of a recipe included, is a row owned by the user
\* the response goes to.
ReadIsolation ==
    /\ response.kind = "recipes" =>
         \A k \in DOMAIN response.data :
            /\ \E r \in Recipe : r.id = response.data[k].id /\ r.user = response.user
            /\ \A t \in response.data[k].tags :
                 \E x \in Tag : x.id = t.id /\ x.user = response.user
            /\ \A i \in response.data[k].ingredients :
                 \E x \in Ingredient : x.id = i.id /\ x.user = response.user
    /\ response.kind = "image" =>
         \A k \in DOMAIN response.data :
            \E r \in Recipe : r.id = response.data[k].id /\ r.user = response.user
    /\ response.kind = "tags" =>
         \A k \in DOMAIN response.data :
            \E x \in Tag : x.id = response.data[k].id /\ x.user = response.user
    /\ response.kind = "ingredients" =>
         \A k \in DOMAIN response.data :
            \E x \in Ingredient : x.id = response.data[k].id /\ x.user = response.user

\* A user lists recipes with a tags filter naming another user's attached tag,
\* and gets a recipe of their own.
ReadIsolationWitness ==
    /\ Answered("recipe-list", 200)
    /\ response.data # <<>>
    /\ \E t \in Tag, r \in Recipe :
         /\ t.user # request.user /\ r.user # request.user
         /\ <<r.id, t.id>> \in recipe_tags
         /\ Digits[t.id] \in Range(request.tags)

\* The request of this step addresses a row of another user.
AddressesForeign(op, rows) ==
    /\ request'.op = op
    /\ \E r \in rows : r.id = request'.pk /\ r.user # request'.user

\* C2 Cross-user mutation: an update, delete or image upload addressed to another
\* user's recipe, tag or ingredient is answered 404 and changes no table.
CrossUserMutationRejected ==
    [][(\/ AddressesForeign("recipe-update", Recipe)
        \/ AddressesForeign("recipe-destroy", Recipe)
        \/ AddressesForeign("recipe-upload-image", Recipe)
        \/ AddressesForeign("tag-update", Tag)
        \/ AddressesForeign("tag-destroy", Tag)
        \/ AddressesForeign("ingredient-update", Ingredient)
        \/ AddressesForeign("ingredient-destroy", Ingredient))
       => (response'.status = 404 /\ UNCHANGED tables)]_vars

\* A delete of another user's tag that is attached to a recipe was answered 404.
CrossUserMutationWitness ==
    /\ Answered("tag-destroy", 404)
    /\ \E t \in Tag : t.id = request.pk /\ t.user # request.user
                      /\ \E p \in recipe_tags : p[2] = t.id

\* C3 Relation ownership: every tag and ingredient related to a recipe is owned by
\* the recipe's owner.
RelationOwnership ==
    /\ \A p \in recipe_tags : \A r \in Recipe, t \in Tag :
         (r.id = p[1] /\ t.id = p[2]) => r.user = t.user
    /\ \A p \in recipe_ingredients : \A r \in Recipe, i \in Ingredient :
         (r.id = p[1] /\ i.id = p[2]) => r.user = i.user

\* Recipes of two users each hold a relation, one to a tag and one to an ingredient.
RelationOwnershipWitness ==
    \E p \in recipe_tags, q \in recipe_ingredients :
       /\ Exists(Recipe, p[1]) /\ Exists(Recipe, q[1]) /\ Exists(Tag, p[2])
       /\ Exists(Ingredient, q[2])
       /\ OwnerOf(Recipe, p[1]) # OwnerOf(Recipe, q[1])

\* At most one row of the table per (owner, name).
UniquePerOwner(rows) ==
    \A x, y \in rows : (x.user = y.user /\ x.name = y.name) => x.id = y.id

\* C4 Per-owner name uniqueness: at most one Tag row and at most one Ingredient
\* row per (owner, name) in every state sequential requests reach.
NameUniqueness == UniquePerOwner(Tag) /\ UniquePerOwner(Ingredient)

\* C5 Get-or-create race: two recipes created concurrently by one user that are
\* related to a tag (ingredient) of the same name are related to the same row.
GetOrCreateRaceSafe ==
    \A i, j \in DOMAIN inflight :
       (/\ i # j
        /\ inflight[i].status = 201 /\ inflight[j].status = 201
        /\ inflight[i].user = inflight[j].user) =>
          /\ \A x, y \in Tag :
               (/\ x.user = inflight[i].user /\ y.user = inflight[i].user
                /\ x.name = y.name
                /\ <<inflight[i].recipe, x.id>> \in recipe_tags
                /\ <<inflight[j].recipe, y.id>> \in recipe_tags) => x.id = y.id
          /\ \A x, y \in Ingredient :
               (/\ x.user = inflight[i].user /\ y.user = inflight[i].user
                /\ x.name = y.name
                /\ <<inflight[i].recipe, x.id>> \in recipe_ingredients
                /\ <<inflight[j].recipe, y.id>> \in recipe_ingredients) => x.id = y.id

\* The names of the rows a user owns.
OwnedNames(rows, u) == {t.name : t \in {x \in rows : x.user = u}}
\* The names a payload gives under a key, none when the key is absent.
Named(payload, key) == IF key \in payload.keys THEN Range(payload[key]) ELSE {}
\* The names occurring more than once in a list.
Repeated(seq) ==
    {seq[i] : i \in {k \in DOMAIN seq : \E j \in DOMAIN seq : j # k /\ seq[j] = seq[k]}}
\* The step answers a recipe create with 201, or a recipe update with 200.
Created == request'.op = "recipe-create" /\ response'.status = 201
Updated == request'.op = "recipe-update" /\ response'.status = 200

\* The rows of the table before the step that the new recipe is related to afterwards.
Reused(rows, join, u, names) ==
    \A n \in names \cap OwnedNames(rows, u) :
       \E t \in rows : t.user = u /\ t.name = n /\ <<recipe_id_seq, t.id>> \in join

\* C6 Reuse on create: a recipe create answered 201 attaches the requester's existing
\* row for every payload name the requester already owns, keeps every row, and adds
\* exactly one Tag (Ingredient) row per distinct payload name the requester did not own.
ReuseOnCreate ==
    [][Created =>
         LET u == request'.user
             tags == Named(request'.payload, "tags")
             ingredients == Named(request'.payload, "ingredients")
         IN  /\ Tag \subseteq Tag'
             /\ Cardinality(Tag') = Cardinality(Tag) + Cardinality(tags \ OwnedNames(Tag, u))
             /\ Reused(Tag, recipe_tags', u, tags)
             /\ Ingredient \subseteq Ingredient'
             /\ Cardinality(Ingredient') =
                  Cardinality(Ingredient)
                    + Cardinality(ingredients \ OwnedNames(Ingredient, u))
             /\ Reused(Ingredient, recipe_ingredients', u, ingredients)]_vars

\* A create naming two tags was answered 201: one of the tags is also related to an
\* older recipe of the requester, the other to the new recipe alone.
ReuseOnCreateWitness ==
    /\ Answered("recipe-create", 201)
    /\ Cardinality(Named(request.payload, "tags")) = 2
    /\ \E t, n \in Tag :
         /\ t.user = request.user /\ n.user = request.user
         /\ {t.name, n.name} = Named(request.payload, "tags")
         /\ <<recipe_id_seq - 1, t.id>> \in recipe_tags
         /\ \E p \in recipe_tags : p[2] = t.id /\ p[1] # recipe_id_seq - 1
         /\ \A p \in recipe_tags : p[2] = n.id => p[1] = recipe_id_seq - 1

\* The recipe a create or an update of this step writes.
Written == IF request'.op = "recipe-create" THEN recipe_id_seq ELSE request'.pk

\* One relation of the recipe to a row of that name, and at most one new row of it.
Collapsed(rows, rows2, join2, u, n) ==
    /\ Cardinality({t \in rows2 : t.user = u /\ t.name = n
                                  /\ <<Written, t.id>> \in join2}) = 1
    /\ Cardinality({t \in rows2 \ rows : t.name = n}) <= 1

\* C7 Duplicate names collapse: after a recipe create answered 201 or a recipe update
\* answered 200, every name the payload lists more than once under tags (ingredients)
\* has exactly one relation to the recipe and at most one new row.
DuplicatesCollapse ==
    [][(Created \/ Updated) =>
         LET u == request'.user
             p == request'.payload
         IN  /\ "tags" \in p.keys =>
                  \A n \in Repeated(p.tags) : Collapsed(Tag, Tag', recipe_tags', u, n)
             /\ "ingredients" \in p.keys =>
                  \A n \in Repeated(p.ingredients) :
                     Collapsed(Ingredient, Ingredient', recipe_ingredients', u, n)]_vars

\* An update listing one ingredient name twice was answered 200, and the requester's
\* only row of that name is the recipe's only ingredient.
DuplicatesCollapseWitness ==
    /\ Answered("recipe-update", 200)
    /\ "ingredients" \in request.payload.keys
    /\ Repeated(request.payload.ingredients) # {}
    /\ Cardinality(Related(recipe_ingredients, request.pk)) = 1
    /\ Cardinality({i \in Ingredient : i.user = request.user}) = 1

\* The ids of the user's rows with one of the names.
RowsNamed(rows, u, names) == {t.id : t \in {x \in rows : x.user = u /\ x.name \in names}}

\* C8 Replace-on-update: after a recipe update answered 200 whose payload holds the
\* tags key, the recipe's tags are exactly the requester's tags named in the list and
\* every listed name has a row; the same for ingredients.
ReplaceOnUpdate ==
    [][Updated =>
         LET u == request'.user
             p == request'.payload
         IN  /\ "tags" \in p.keys =>
                  /\ Related(recipe_tags', request'.pk) = RowsNamed(Tag', u, Range(p.tags))
                  /\ Range(p.tags) \subseteq OwnedNames(Tag', u)
             /\ "ingredients" \in p.keys =>
                  /\ Related(recipe_ingredients', request'.pk) =
                       RowsNamed(Ingredient', u, Range(p.ingredients))
                  /\ Range(p.ingredients) \subseteq OwnedNames(Ingredient', u)]_vars

\* The only recipe ever created was updated with a non-empty tags list, and a tag of
\* the requester that the list does not name is no longer related to it.
ReplaceOnUpdateWitness ==
    /\ Answered("recipe-update", 200)
    /\ recipe_id_seq = 2
    /\ "tags" \in request.payload.keys
    /\ request.payload.tags # <<>>
    /\ Related(recipe_tags, request.pk) # {}
    /\ \E t \in Tag : /\ t.user = request.user
                      /\ t.name \notin Range(request.payload.tags)
                      /\ <<request.pk, t.id>> \notin recipe_tags

\* C9 Independent partial update: a recipe update without the tags key changes no
\* tag relation and one without the ingredients key changes no ingredient relation;
\* an update answered 200 with an empty list under a key leaves the recipe without
\* relations of that kind.
IndependentPartialUpdate ==
    [][request'.op = "recipe-update" =>
         LET p == request'.payload IN
         /\ "tags" \notin p.keys => recipe_tags' = recipe_tags
         /\ "ingredients" \notin p.keys => recipe_ingredients' = recipe_ingredients
         /\ (response'.status = 200 /\ "tags" \in p.keys /\ p.tags = <<>>) =>
              Related(recipe_tags', request'.pk) = {}
         /\ (response'.status = 200 /\ "ingredients" \in p.keys /\ p.ingredients = <<>>) =>
              Related(recipe_ingredients', request'.pk) = {}]_vars

\* The only recipe ever created was updated with tags: [] and no ingredients key: a
\* tag of the requester is left without relation and the recipe keeps an ingredient.
IndependentPartialUpdateWitness ==
    /\ Answered("recipe-update", 200)
    /\ recipe_id_seq = 2
    /\ request.payload.keys = {"tags"}
    /\ request.payload.tags = <<>>
    /\ \E t \in Tag : t.user = request.user
    /\ Related(recipe_tags, request.pk) = {}
    /\ Related(recipe_ingredients, request.pk) # {}

\* The request of this step is a recipe update carrying a user field that addresses
\* a recipe of the requester and passes validation.
NamesOwner ==
    /\ request'.op = "recipe-update"
    /\ "user" \in request'.payload.keys
    /\ \E r \in Recipe : r.id = request'.pk /\ r.user = request'.user
    /\ RecipeSerializer_is_valid(request'.payload, request'.partial)

Listed(tokens) == {int(tokens[k]) : k \in DOMAIN tokens}
\* The ids of the rows a response serializes.
Returned == {response.data[k].id : k \in DOMAIN response.data}

\* C11 Recipe filtering: a recipe list answered 200 holds exactly the requester's
\* recipes with a tag among the listed tag ids (when tags is given) and an
\* ingredient among the listed ingredient ids (when ingredients is given), in
\* strictly descending id order, so each recipe once.
RecipeFiltering ==
    Answered("recipe-list", 200) =>
       /\ Returned =
            {r.id : r \in {x \in Recipe :
               /\ x.user = request.user
               /\ request.tags # <<>> =>
                    Related(recipe_tags, x.id) \cap Listed(request.tags) # {}
               /\ request.ingredients # <<>> =>
                    Related(recipe_ingredients, x.id) \cap Listed(request.ingredients) # {}}}
       /\ \A i, j \in DOMAIN response.data :
            i < j => response.data[i].id > response.data[j].id

\* A list filtered by two tag ids returned the one recipe related to both of them,
\* once, and left out another recipe of the requester.
RecipeFilteringWitness ==
    /\ Answered("recipe-list", 200)
    /\ Cardinality(Listed(request.tags)) = 2
    /\ Len(response.data) = 1
    /\ Listed(request.tags) \subseteq Related(recipe_tags, response.data[1].id)
    /\ \E r \in Recipe : r.user = request.user /\ r.id \notin Returned

\* The rows of the table a list with this assigned_only parameter is to return.
Assigned(rows, join, u, assigned_only) ==
    {t.id : t \in {x \in rows :
       /\ x.user = u
       /\ assigned_only = "1" => \E p \in join : p[2] = x.id}}

\* The response lists its rows by non-increasing name and no row twice.
DescendingNames ==
    /\ \A i, j \in DOMAIN response.data :
         i < j => NameRank(response.data[i].name) >= NameRank(response.data[j].name)
    /\ \A i, j \in DOMAIN response.data :
         i # j => response.data[i].id # response.data[j].id

\* C12 assigned_only listing: a tag (ingredient) list answered 200 holds, by
\* descending name and each row once, exactly the requester's rows related to some
\* recipe when assigned_only is 1 and all of the requester's rows when it is absent or 0.
AssignedOnlyListing ==
    /\ Answered("tag-list", 200) =>
         /\ Returned = Assigned(Tag, recipe_tags, request.user, request.assigned_only)
         /\ DescendingNames
    /\ Answered("ingredient-list", 200) =>
         /\ Returned = Assigned(Ingredient, recipe_ingredients, request.user,
                                request.assigned_only)
         /\ DescendingNames

\* A tag list with assigned_only=1 returned two tags, each related to two recipes.
AssignedOnlyListingWitness ==
    /\ Answered("tag-list", 200)
    /\ request.assigned_only = "1"
    /\ Len(response.data) = 2
    /\ \A k \in DOMAIN response.data :
         Cardinality({p \in recipe_tags : p[2] = response.data[k].id}) = 2

\* C13 Rejected image upload: an upload to a recipe of the requester whose image
\* field is missing or is no image is answered 400 and changes no table.
RejectedUploadChangesNothing ==
    [][(/\ request'.op = "recipe-upload-image"
        /\ \E r \in Recipe : r.id = request'.pk /\ r.user = request'.user
        /\ request'.image \notin Images)
       => (response'.status = 400 /\ UNCHANGED tables)]_vars

\* An upload that is no image was answered 400 for a recipe that holds an image.
RejectedUploadWitness ==
    /\ Answered("recipe-upload-image", 400)
    /\ request.image = "notanimage"
    /\ \E r \in Recipe : r.id = request.pk /\ r.user = request.user /\ r.image \in Images

\* C14 Authentication gate: a request without an authenticated identity, to any
\* endpoint, is answered 401 with no data and changes no table.
AuthenticationGate ==
    [][(request'.op # "none" /\ request'.user = Anonymous)
       => (/\ response'.status = 401
           /\ response'.data = NoData
           /\ UNCHANGED tables)]_vars

\* An anonymous recipe create was answered 401 while recipes of users are stored.
AuthenticationGateWitness ==
    /\ Answered("unauthenticated", 401)
    /\ request.endpoint = "recipe-create"
    /\ Recipe # {}

\* The request of this step addresses a row of the requester.
AddressesOwn(op, rows) ==
    /\ request'.op = op
    /\ \E r \in rows : r.id = request'.pk /\ r.user = request'.user

\* The rows without the one the request addresses.
Without(rows) == {r \in rows : r.id # request'.pk}

\* C15 Deletion cascades relation rows only: the delete of a recipe of the requester
\* is answered 204, removes the recipe and its relations and keeps every Tag and
\* Ingredient row; the delete of a tag (ingredient) of the requester is answered 204,
\* removes the row and its relations and keeps every recipe and every other row.
DeletionCascadesRelationsOnly ==
    [][/\ AddressesOwn("recipe-destroy", Recipe) =>
            /\ response'.status = 204
            /\ Recipe' = Without(Recipe)
            /\ recipe_tags' = {p \in recipe_tags : p[1] # request'.pk}
            /\ recipe_ingredients' = {p \in recipe_ingredients : p[1] # request'.pk}
            /\ UNCHANGED <<Tag, Ingredient>>
       /\ AddressesOwn("tag-destroy", Tag) =>
            /\ response'.status = 204
            /\ Tag' = Without(Tag)
            /\ recipe_tags' = {p \in recipe_tags : p[2] # request'.pk}
            /\ UNCHANGED <<Recipe, Ingredient, recipe_ingredients>>
       /\ AddressesOwn("ingredient-destroy", Ingredient) =>
            /\ response'.status = 204
            /\ Ingredient' = Without(Ingredient)
            /\ recipe_ingredients' = {p \in recipe_ingredients : p[2] # request'.pk}
            /\ UNCHANGED <<Recipe, Tag, recipe_tags>>]_vars

\* The second request deleted one of the two tags the first request created with a
\* recipe: the recipe is still there, related to the other tag alone.
DeletionWitness ==
    /\ Answered("tag-destroy", 204)
    /\ served = 2
    /\ tag_id_seq = 3
    /\ \E r \in Recipe, t \in Tag :
         /\ r.user = request.user
         /\ t.id # request.pk
         /\ Related(recipe_tags, r.id) = {t.id}

\* C16 Request atomicity: a recipe create or update that is not answered with
\* success leaves every row and every relation as it was before the request.
RequestAtomicity ==
    [][(/\ request'.op \in {"recipe-create", "recipe-update"}
        /\ response'.status \notin {200, 201})
       => UNCHANGED <<Recipe, Tag, Ingredient, recipe_tags, recipe_ingredients>>]_vars

\* An update with a tags list failed in get_or_create, after the clearing of the
\* recipe's tags, and the recipe has its tags.
RequestAtomicityWitness ==
    /\ Answered("recipe-update", 500)
    /\ "tags" \in request.payload.keys
    /\ Related(recipe_tags, request.pk) # {}

IdsOf(rows) == {r.id : r \in rows}
\* The ids new in the table are the ones the step drew from the table's sequence.
Fresh(rows, rows2, seq, seq2) ==
    \A id \in IdsOf(rows2) \ IdsOf(rows) : seq <= id /\ id < seq2
\* An update answered 200 leaves a row under the id the request addresses and
\* every other row as it was.
SameId(op, rows, rows2) ==
    (request'.op = op /\ response'.status = 200) =>
       /\ request'.pk \in IdsOf(rows2)
       /\ {r \in rows2 : r.id # request'.pk} = {r \in rows : r.id # request'.pk}

\* C17 Ids are server-assigned and immutable: every new row takes its id from the
\* table's sequence, whatever ids the payload carries; a row's id stays in the table
\* until a delete of that table; an update keeps the row under the id it addressed.
IdsServerAssigned ==
    [][/\ Fresh(Recipe, Recipe', recipe_id_seq, recipe_id_seq')
       /\ Fresh(Tag, Tag', tag_id_seq, tag_id_seq')
       /\ Fresh(Ingredient, Ingredient', ingredient_id_seq, ingredient_id_seq')
       /\ request'.op # "recipe-destroy" => IdsOf(Recipe) \subseteq IdsOf(Recipe')
       /\ request'.op # "tag-destroy" => IdsOf(Tag) \subseteq IdsOf(Tag')
       /\ request'.op # "ingredient-destroy" => IdsOf(Ingredient) \subseteq IdsOf(Ingredient')
       /\ SameId("recipe-update", Recipe, Recipe')
       /\ SameId("tag-update", Tag, Tag')
       /\ SameId("ingredient-update", Ingredient, Ingredient')]_vars

\* A tag update carrying the id of another tag was answered 200 and both tags exist.
IdsServerAssignedWitness ==
    /\ Answered("tag-update", 200)
    /\ "id" \in request.payload.keys
    /\ request.payload.id # request.pk
    /\ {request.pk, request.payload.id} \subseteq IdsOf(Tag)

\* C18 Unique account emails: no two accounts share an email, before and after
\* every step; a registration with an email an account has, or with a password
\* that is too short, is answered 400 and creates no account.
UniqueEmails ==
    [][/\ \A x, y \in User : x.email = y.email => x = y
       /\ \A x, y \in User' : x.email = y.email => x = y
       /\ (/\ request'.op = "user-create"
           /\ \/ \E a \in User : a.email = request'.payload.email
              \/ Len(request'.payload.password) < MinPasswordLength)
          => (response'.status = 400 /\ UNCHANGED User)]_vars

\* A registration with a long enough password was answered 400: its email belongs
\* to an account an earlier registration created.
UniqueEmailsWitness ==
    /\ Answered("user-create", 400)
    /\ Len(request.payload.password) >= MinPasswordLength
    /\ \E a \in User : a.email = request.payload.email /\ a.id \notin Users

\* The request is a list whose tags, ingredients or assigned_only parameter holds
\* something that is no integer.
Malformed ==
    \/ /\ request.op = "recipe-list"
       /\ \E k \in DOMAIN request.tags : ~IsInt(request.tags[k])
    \/ /\ request.op = "recipe-list"
       /\ \E k \in DOMAIN request.ingredients : ~IsInt(request.ingredients[k])
    \/ /\ request.op \in {"tag-list", "ingredient-list"}
       /\ request.assigned_only # "absent"
       /\ ~IsInt(request.assigned_only)

\* C19 Malformed filter parameters are client errors: a list with a malformed
\* parameter is answered 400, and every list is answered 200, 400 or 401.
MalformedParamsAreClientErrors ==
    /\ Malformed => response.status = 400
    /\ request.op \in {"recipe-list", "tag-list", "ingredient-list"} =>
         response.status \in {200, 400, 401}

\* C20 Recipe writes never delete or rename attribute rows: a recipe create, update
\* or delete keeps every Tag and Ingredient row, with its id, owner and name.
RecipeWritesKeepAttrs ==
    [][request'.op \in {"recipe-create", "recipe-update", "recipe-destroy"}
       => (Tag \subseteq Tag' /\ Ingredient \subseteq Ingredient')]_vars

\* An update with ingredients: [] was answered 200, and an ingredient of the
\* requester, related to no recipe, is stored.
RecipeWritesKeepAttrsWitness ==
    /\ Answered("recipe-update", 200)
    /\ "ingredients" \in request.payload.keys
    /\ request.payload.ingredients = <<>>
    /\ \E i \in Ingredient :
         i.user = request.user /\ \A p \in recipe_ingredients : p[2] # i.id

====
